---- MODULE Spec2Model ----
(***************************************************************************)
(* Model of agent.py: the file-context cache and the conversation store.   *)
(*                                                                         *)
(* Representation of Python values:                                        *)
(*   - a file name is the sequence of its character codes ("a.md" is       *)
(*     <<97,46,109,100>>), so that suffix, lower() and sorted() are        *)
(*     computed on it;                                                     *)
(*   - a text (file bytes, decoded content, message content, input line)   *)
(*     is a run-length sequence of pieces [lit, name, n]: piece `lit`      *)
(*     (or the file name `name`) repeated n times.  File bytes use         *)
(*     one-character pieces, so slicing to MAX_FILE_CHARS is computed on   *)
(*     the run lengths;                                                    *)
(*   - None is the record NoneSig / NoMsg with isNone = TRUE.              *)
(***************************************************************************)
EXTENDS Integers, Sequences, FiniteSets, TLC

\* ---------------------------------------------------------------- bounds
MaxTurns == 2
MaxFsOps == 1
MaxBriefings == 2

\* ---------------------------------------------------------------- config (agent.py:7-10)
MAX_FILE_CHARS == 8000

FILE_CONTEXT_TAG == "__FILE_CONTEXT__"

\* ".txt", ".md", ".py", ".json", ".yaml", ".yml", ".tf", ".tfvars"
INCLUDE_EXTENSIONS ==
    { <<46,116,120,116>>, <<46,109,100>>, <<46,112,121>>, <<46,106,115,111,110>>,
      <<46,121,97,109,108>>, <<46,121,109,108>>, <<46,116,102>>,
      <<46,116,102,118,97,114,115>> }

\* Path(__file__).name : "agent.py"
agent_filename == <<97,103,101,110,116,46,112,121>>

\* Path.cwd().resolve(), fixed for the life of the process
project_dir == "/cwd"

\* ---------------------------------------------------------------- texts
Lit(s) == [lit |-> s, name |-> <<>>, n |-> 1]
Rep(s, k) == [lit |-> s, name |-> <<>>, n |-> k]
NameTok(nm) == [lit |-> "", name |-> nm, n |-> 1]

RECURSIVE TextLen(_)
\* len() of a text whose pieces are single characters
TextLen(t) == IF t = <<>> THEN 0 ELSE Head(t).n + TextLen(Tail(t))

RECURSIVE Prefix(_, _)
\* t[:k]
Prefix(t, k) ==
    IF t = <<>> \/ k <= 0 THEN <<>>
    ELSE IF Head(t).n <= k
         THEN <<Head(t)>> \o Prefix(Tail(t), k - Head(t).n)
         ELSE <<[Head(t) EXCEPT !.n = k]>>

\* str.startswith(tag): the tag is always a piece of its own
StartsWith(t, tag) == Len(t) >= 1 /\ t[1].lit = tag

\* bytes.decode("utf-8", errors="replace"): an invalid byte becomes U+FFFD
Decode(bytes) ==
    [i \in 1..Len(bytes) |->
        IF bytes[i].lit = "\\xff" THEN [bytes[i] EXCEPT !.lit = "U+FFFD"] ELSE bytes[i]]

\* ---------------------------------------------------------------- names
\* the names a directory entry can have: "a.md", "B.MD", "i.png", "agent.py"
NameAmd == <<97,46,109,100>>
NameBMD == <<66,46,77,68>>
NameIpng == <<105,46,112,110,103>>
Names == { NameAmd, NameBMD, NameIpng, agent_filename }

\* str.lower() on ASCII codes
Lower(s) == [i \in 1..Len(s) |-> IF s[i] >= 65 /\ s[i] <= 90 THEN s[i] + 32 ELSE s[i]]

\* PurePath.suffix: from the last dot, unless it is first or last in the name
Suffix(nm) ==
    LET dots == { i \in 1..Len(nm) : nm[i] = 46 } IN
    IF dots = {} THEN <<>>
    ELSE LET i == CHOOSE j \in dots : \A k \in dots : k <= j IN
         IF i > 1 /\ i < Len(nm) THEN SubSeq(nm, i, Len(nm)) ELSE <<>>

RECURSIVE StrLess(_, _)
\* str.__lt__ : code-point lexicographic order
StrLess(a, b) ==
    IF b = <<>> THEN FALSE
    ELSE IF a = <<>> THEN TRUE
    ELSE IF Head(a) # Head(b) THEN Head(a) < Head(b)
    ELSE StrLess(Tail(a), Tail(b))

RECURSIVE Sorted(_)
\* sorted(paths): the paths share their parent, so they sort by name
Sorted(S) ==
    IF S = {} THEN <<>>
    ELSE LET m == CHOOSE x \in S : \A y \in S \ {x} : StrLess(x, y)
         IN <<m>> \o Sorted(S \ {m})

\* ---------------------------------------------------------------- file system
\* One directory entry.  `bytes` is the file's content, `mtime` its st_mtime_ns,
\* `isfile` tells a regular file from a sub-directory, `readable` whether open() succeeds.
Absent == [present |-> FALSE, isfile |-> FALSE, mtime |-> 0, bytes |-> <<>>, readable |-> FALSE]
RegularFile(b, t) == [present |-> TRUE, isfile |-> TRUE, mtime |-> t, bytes |-> b, readable |-> TRUE]
SubDirectory == [present |-> TRUE, isfile |-> FALSE, mtime |-> 1, bytes |-> <<>>, readable |-> FALSE]

\* sample file contents: 5 bytes, 5 bytes with an invalid first byte, MAX_FILE_CHARS + 1 bytes
BytesHello == <<Rep("x", 5)>>
BytesBad == <<Rep("\\xff", 1), Rep("z", 4)>>
BytesLong == <<Rep("x", MAX_FILE_CHARS), Rep("y", 1)>>
\* the versions a file is written in: its content and the st_mtime_ns it then has.
\* They differ in mtime alone, in content alone (same size, same mtime), or in size.
FileVersions ==
    { <<BytesHello, 1>>, <<BytesHello, 2>>, <<BytesBad, 1>>, <<BytesLong, 2>> }

\* the name passes the tests of lines 44-48 and 102: only such an entry is ever
\* statted or read
Candidate(nm) == nm # agent_filename /\ Lower(Suffix(nm)) \in INCLUDE_EXTENSIONS

\* a file the program never stats or reads is written in one version
VersionsOf(nm) == IF Candidate(nm) THEN FileVersions ELSE { <<BytesLong, 2>> }

EmptyDir == [nm \in Names |-> Absent]
ScenarioDir == [EmptyDir EXCEPT ![NameAmd] = RegularFile(BytesHello, 1)]
\* three files, one of them with an extension outside the allow-list
MixedDir ==
    [ScenarioDir EXCEPT ![NameBMD] = RegularFile(BytesLong, 2),
                        ![NameIpng] = RegularFile(BytesHello, 1)]

\* base_dir.iterdir()
iterdir(d) == { nm \in Names : d[nm].present }
\* path.is_file()
is_file(d, nm) == d[nm].present /\ d[nm].isfile
\* path.stat().st_size
st_size(d, nm) == TextLen(d[nm].bytes)

\* ---------------------------------------------------------------- agent.py:42-48, 102
\* the eligibility test of build_file_context_message
Eligible(d, nm) ==
    /\ is_file(d, nm)
    /\ nm # agent_filename
    /\ Lower(Suffix(nm)) \in INCLUDE_EXTENSIONS

\* mutant: the snapshot compares the extension without lower-casing it
SigEligibleCaseSensitive(d, nm) ==
    is_file(d, nm) /\ nm # agent_filename /\ Suffix(nm) \in INCLUDE_EXTENSIONS
\* the eligibility test of directory_signature
SigEligible(d, nm) ==
    is_file(d, nm) /\ nm # agent_filename /\ Lower(Suffix(nm)) \in INCLUDE_EXTENSIONS

\* ---------------------------------------------------------------- agent.py:31-72
\* mutant: the text is not sliced
ReadContentWhole(d, nm) == Decode(d[nm].bytes)
\* path.read_text(encoding="utf-8", errors="replace")[:MAX_FILE_CHARS]
ReadContent(d, nm) == Prefix(Decode(d[nm].bytes), MAX_FILE_CHARS)

\* mutant: the block also shows the file's modification time
FileBlockStamped(d, nm) ==
    <<Lit("File: "), NameTok(nm), Rep("@", d[nm].mtime), Lit("\n---\n")>>
        \o ReadContent(d, nm) \o <<Lit("\n")>>

\* f"File: {path.name}\n---\n{content}\n"
FileBlock(d, nm) ==
    <<Lit("File: "), NameTok(nm), Lit("\n---\n")>> \o ReadContent(d, nm) \o <<Lit("\n")>>

RECURSIVE FileBlocksAborting(_, _)
\* mutant: a file whose read fails ends the loop
FileBlocksAborting(d, paths) ==
    IF paths = <<>> THEN <<>>
    ELSE LET nm == Head(paths) IN
         IF Eligible(d, nm) /\ ~d[nm].readable THEN <<>>
         ELSE IF Eligible(d, nm)
         THEN <<FileBlock(d, nm)>> \o FileBlocksAborting(d, Tail(paths))
         ELSE FileBlocksAborting(d, Tail(paths))

RECURSIVE FileBlocks(_, _)
\* the loop of build_file_context_message over the sorted listing: file_blocks
FileBlocks(d, paths) ==
    IF paths = <<>> THEN <<>>
    ELSE LET nm == Head(paths) IN
         IF Eligible(d, nm) /\ d[nm].readable
         THEN <<FileBlock(d, nm)>> \o FileBlocks(d, Tail(paths))
         ELSE FileBlocks(d, Tail(paths))

RECURSIVE Join(_, _)
\* sep.join(parts)
Join(sep, parts) ==
    IF parts = <<>> THEN <<>>
    ELSE IF Len(parts) = 1 THEN Head(parts)
    ELSE Head(parts) \o <<sep>> \o Join(sep, Tail(parts))

NoMsg == [isNone |-> TRUE, val |-> [role |-> "", content |-> <<>>]]
SomeMsg(m) == [isNone |-> FALSE, val |-> m]

BriefingHeader ==
    << Lit(FILE_CONTEXT_TAG), Lit("\n"),
       Lit("Project directory: "), Lit(project_dir), Lit("\n"),
       Lit("You have access to the following files from the project directory. "),
       Lit("Use them as context when answering. If the user asks about a file, "),
       Lit("prefer quoting the relevant snippet and explaining it.\n\n") >>

build_file_context_message(d) ==
    LET file_blocks == FileBlocks(d, Sorted(iterdir(d))) IN
    IF file_blocks = <<>> THEN NoMsg
    ELSE SomeMsg([role |-> "system",
                  content |-> BriefingHeader \o Join(Lit("\n"), file_blocks)])

\* ---------------------------------------------------------------- agent.py:75-94
\* mutant: the file context is appended instead of inserted at the front
add_file_context_last(ctx, d) ==
    LET msg == build_file_context_message(d) IN
    IF msg.isNone THEN ctx ELSE Append(ctx, msg.val)

add_initial_file_context(ctx, d) ==
    LET msg == build_file_context_message(d) IN
    IF msg.isNone THEN ctx ELSE <<msg.val>> \o ctx

\* mutant: the filter looks at the content alone, whatever the role
IsFileContextAnyRole(m) == StartsWith(m.content, FILE_CONTEXT_TAG)

\* m.get("role") == "system" and str(m.get("content", "")).startswith(FILE_CONTEXT_TAG)
IsFileContext(m) == m.role = "system" /\ StartsWith(m.content, FILE_CONTEXT_TAG)

RECURSIVE DropFileContext(_)
DropFileContext(ctx) ==
    IF ctx = <<>> THEN <<>>
    ELSE IF IsFileContext(Head(ctx)) THEN DropFileContext(Tail(ctx))
    ELSE <<Head(ctx)>> \o DropFileContext(Tail(ctx))

\* mutant: the old file context is removed only when there is a new one to put
reload_replacing(ctx, d) ==
    IF build_file_context_message(d).isNone THEN ctx
    ELSE add_initial_file_context(DropFileContext(ctx), d)

reload_file_context(ctx, d) == add_initial_file_context(DropFileContext(ctx), d)

\* ---------------------------------------------------------------- agent.py:97-108
NoneSig == [isNone |-> TRUE, val |-> <<>>]
SomeSig(s) == [isNone |-> FALSE, val |-> s]

RECURSIVE SigLoop(_, _)
\* the loop of directory_signature over a listing made earlier: entries that are
\* gone by the time of is_file()/stat() are skipped
SigLoop(d, paths) ==
    IF paths = <<>> THEN <<>>
    ELSE LET nm == Head(paths) IN
         IF SigEligible(d, nm)
         THEN << <<nm, d[nm].mtime, st_size(d, nm)>> >> \o SigLoop(d, Tail(paths))
         ELSE SigLoop(d, Tail(paths))

directory_signature(d) == SigLoop(d, Sorted(iterdir(d)))

\* ---------------------------------------------------------------- inputs
\* str.strip() on a line whose blanks are pieces of their own
RECURSIVE LStrip(_)
LStrip(t) == IF t # <<>> /\ Head(t).lit = " " THEN LStrip(Tail(t)) ELSE t
RECURSIVE RStrip(_)
RStrip(t) ==
    IF t # <<>> /\ t[Len(t)].lit = " " THEN RStrip(SubSeq(t, 1, Len(t) - 1)) ELSE t
\* mutant: only the leading blanks are removed
StripLeft(t) == LStrip(t)
Strip(t) == RStrip(LStrip(t))

ExitCmd == <<Lit("/exit")>>
QuitCmd == <<Lit("/quit")>>
ReloadCmd == <<Lit("/reload")>>
PromptPlain == <<Lit("summarize")>>
\* a prompt whose text starts with the tag marker
PromptTagged == <<Lit(FILE_CONTEXT_TAG), Lit(" again")>>
\* what process can be given: sys.argv[1:] joined (line 137), or the caller's argument
Prompts == { PromptPlain, PromptTagged }
\* what input("> ") can return
RawLines ==
    { <<>>, <<Lit(" ")>>, ExitCmd, QuitCmd, ReloadCmd, <<Lit(" "), Lit("/reload"), Lit(" ")>>,
      PromptPlain, <<Lit(" ")>> \o PromptPlain }
\* response.output_text
Replies == { <<Lit("reply")>> }

Modes == { "oneshot", "repl", "caller" }

\* ---------------------------------------------------------------- state
VARIABLES
    context,    \* agent.py:15  the conversation store
    last_sig,   \* agent.py:18  _last_sig
    dir,        \* the entries of the project directory
    mode,       \* how the module is driven: main() with arguments, main() as REPL,
                \* or a caller that runs main's startup load and then calls
                \* process / reload_file_context itself and survives their exceptions
    pc,         \* position of the program
    prompt,     \* process: its argument
    listing,    \* directory_signature: sorted(base_dir.iterdir())
    sig,        \* process: the local sig (kept until the next turn computes its own)
    callInput,  \* the input of the client.responses.create call in flight
    output,     \* what process returned last
    built,      \* history: runs of build_file_context_message made by the operation
                \* in progress (startup, a REPL command, a turn), or by the last one
    reloaded,   \* history: the last step, of the program or in the directory, was an
                \* explicit reload
    prevSig,    \* history: the snapshot compared by the last staleness check that ran
                \* to its end in a turn before the current or last one
    checkedSig, \* history: the snapshot compared by the last staleness check that ran
                \* to its end (line 120 found no change, or line 122 was passed)
    turns,      \* history: turns started (entries of process)
    asked,      \* history: turns that appended their user entry (line 124)
    fsops,      \* history: changes made to the directory
    quiet,      \* history: the directory has not changed during the turn in progress
    raceTurn    \* history: the turn in which the last directory change landed between
                \* that turn's snapshot and its staleness check and touched an
                \* eligible file; 0 when the last change was another one, or when a
                \* later turn has made its call

vars == << context, last_sig, dir, mode, pc, prompt, listing, sig, callInput,
           output, built, reloaded, prevSig, checkedSig, turns, asked, fsops, quiet,
           raceTurn >>

progVars == << context, last_sig, mode, pc, prompt, listing, sig, callInput,
               output, built, prevSig, checkedSig, turns, asked >>

NoOutput == [isNone |-> TRUE, val |-> <<>>]

\* the directory the program is started in; the caller's sequences all start in the
\* directory with one file
StartDirs(m) ==
    IF m = "caller" THEN { ScenarioDir } ELSE { EmptyDir, ScenarioDir, MixedDir }

Init ==
    /\ context = <<>>
    /\ last_sig = NoneSig
    /\ mode \in Modes
    /\ dir \in StartDirs(mode)
    /\ pc = "start"
    /\ prompt = <<>>
    /\ listing = <<>>
    /\ sig = <<>>
    /\ callInput = <<>>
    /\ output = NoOutput
    /\ built = 0
    /\ reloaded = FALSE
    /\ prevSig = NoneSig
    /\ checkedSig = NoneSig
    /\ turns = 0
    /\ asked = 0
    /\ fsops = 0
    /\ quiet = TRUE
    /\ raceTurn = 0

\* ---------------------------------------------------------------- the directory changes
\* what every change does; each change first tests that one more is allowed
\* (fsops < MaxFsOps)
FsStep(d) ==
    /\ fsops' = fsops + 1
    /\ dir' = d
    /\ quiet' = (pc \notin { "listed", "statted", "checked", "awaiting" })
    /\ raceTurn' = IF /\ pc = "statted"
                       /\ \E nm \in Names :
                             d[nm] # dir[nm] /\ (Eligible(dir, nm) \/ Eligible(d, nm))
                    THEN turns ELSE 0
    /\ reloaded' = FALSE
    /\ UNCHANGED progVars

\* a file is created or rewritten
FsWrite(nm, v) ==
    /\ fsops < MaxFsOps
    /\ ~(dir[nm].present /\ ~dir[nm].isfile)
    /\ v \in VersionsOf(nm)
    /\ dir[nm] # RegularFile(v[1], v[2])
    /\ FsStep([dir EXCEPT ![nm] = RegularFile(v[1], v[2])])

\* an entry is removed
FsRemove(nm) ==
    /\ fsops < MaxFsOps
    /\ dir[nm].present
    /\ FsStep([dir EXCEPT ![nm] = Absent])

\* a file's permissions change: reads start or stop failing
FsChmod(nm) ==
    /\ fsops < MaxFsOps
    /\ Candidate(nm)
    /\ is_file(dir, nm)
    /\ FsStep([dir EXCEPT ![nm].readable = ~dir[nm].readable])

\* a sub-directory is created
FsMkdir(nm) ==
    /\ fsops < MaxFsOps
    /\ Candidate(nm)
    /\ ~dir[nm].present
    /\ FsStep([dir EXCEPT ![nm] = SubDirectory])

\* ---------------------------------------------------------------- agent.py:131-164  main
\* main: the startup load (line 132), then one-shot or REPL.  A caller runs the
\* startup load itself, and may run it again later: add_initial_file_context
\* (lines 75-79) inserts without removing what the store holds
Main ==
    /\ \/ pc = "start"
       \/ /\ mode = "caller" /\ pc = "input"
          /\ Len(SelectSeq(context, IsFileContext)) < MaxBriefings
    /\ context' = add_initial_file_context(context, dir)
    /\ pc' = IF mode = "oneshot" THEN "args" ELSE "input"
    /\ built' = 1
    /\ reloaded' = FALSE
    /\ UNCHANGED << last_sig, dir, mode, prompt, listing, sig, callInput, output,
                    prevSig, checkedSig, turns, asked, fsops, quiet, raceTurn >>

\* REPL: an empty line is ignored (lines 146-148)
ReplEmpty(raw) ==
    /\ mode = "repl" /\ pc = "input"
    /\ Strip(raw) = <<>>
    /\ built' = 0
    /\ reloaded' = FALSE
    /\ UNCHANGED << context, last_sig, dir, mode, pc, prompt, listing, sig, callInput,
                    output, prevSig, checkedSig, turns, asked, fsops, quiet, raceTurn >>

\* REPL: /exit or /quit (lines 150-152)
ReplExit(raw) ==
    /\ mode = "repl" /\ pc = "input"
    /\ Strip(raw) \in { ExitCmd, QuitCmd }
    /\ pc' = "exited"
    /\ built' = 0
    /\ reloaded' = FALSE
    /\ UNCHANGED << context, last_sig, dir, mode, prompt, listing, sig, callInput,
                    output, prevSig, checkedSig, turns, asked, fsops, quiet, raceTurn >>

\* line 162: the exceptions the REPL loop catches
Caught == { "EOFError", "KeyboardInterrupt" }
\* what a call can raise
Exceptions == Caught \cup { "RuntimeError" }
\* where an exception raised inside the loop body leaves the program: the REPL's
\* try (lines 145-164) encloses the whole body, the one-shot branch (136-139) has none
AfterRaise(m, exc) ==
    IF m = "caller" THEN "input"
    ELSE IF m = "repl" /\ exc \in Caught THEN "exited"
    ELSE "crashed"

\* REPL: EOFError or KeyboardInterrupt at the prompt, or KeyboardInterrupt anywhere
\* inside process (lines 145-164): when caught, main prints "Exiting." and returns.
\* A KeyboardInterrupt that lands on the loop's backward jump (line 144) is outside
\* the try, it is not caught and main raises: no new command has been read, the
\* count of builds is the one of the command just run
ReplInterrupt(caught) ==
    /\ mode = "repl"
    /\ pc \in { "input", "listed", "statted", "checked", "awaiting" }
    /\ caught \/ pc = "input"
    /\ pc' = IF caught THEN "exited" ELSE "crashed"
    /\ built' = IF pc = "input" /\ caught THEN 0 ELSE built
    /\ prompt' = <<>> /\ listing' = <<>> /\ callInput' = <<>>
    /\ reloaded' = FALSE
    /\ quiet' = TRUE
    /\ raceTurn' = IF raceTurn = turns THEN raceTurn ELSE 0
    /\ UNCHANGED << context, last_sig, dir, mode, sig, output, prevSig, checkedSig,
                    turns, asked, fsops >>

\* REPL: KeyboardInterrupt while main prints "Exiting." (lines 151, 163); raised
\* inside the handler it leaves main
HandlerInterrupt ==
    /\ mode = "repl" /\ pc = "exited"
    /\ pc' = "crashed"
    /\ reloaded' = FALSE
    /\ UNCHANGED << context, last_sig, dir, mode, prompt, listing, sig, callInput,
                    output, built, prevSig, checkedSig, turns, asked, fsops, quiet,
                    raceTurn >>

\* how far a load or a rebuild had come when a KeyboardInterrupt landed: before
\* build_file_context_message returned (line 76), after it and before the insert
\* (line 79), or after the insert
Stages == { "entered", "built", "inserted" }

\* a caller of process: KeyboardInterrupt inside process before the call (lines
\* 118-124); the caller catches it and goes on, the turn is abandoned
CallerInterrupt ==
    /\ mode = "caller"
    /\ pc \in { "listed", "statted", "checked" }
    /\ pc' = AfterRaise(mode, "KeyboardInterrupt")
    /\ prompt' = <<>> /\ listing' = <<>>
    /\ reloaded' = FALSE
    /\ quiet' = TRUE
    /\ raceTurn' = IF pc = "checked" /\ raceTurn = turns THEN raceTurn ELSE 0
    /\ UNCHANGED << context, last_sig, dir, mode, sig, callInput, output, built,
                    prevSig, checkedSig, turns, asked, fsops >>

\* KeyboardInterrupt where main has no handler: during the startup load (line 132)
\* at one of the stages, the last one reaching to the try of line 145 or the turn
\* of line 138; in one-shot mode also at lines 136-138, before process is entered or
\* inside it (no load is in progress: stage "entered").  main raises; a caller that
\* runs the startup load itself, the first time or again, catches the exception and
\* goes on: for it an interrupt after the insert is the load that returned (Main)
MainInterrupt(stage) ==
    /\ \/ /\ \/ pc = "start"
             \/ mode = "caller" /\ pc = "input"
          /\ mode = "caller" => stage # "inserted"
          /\ context' = IF stage = "inserted"
                         THEN add_initial_file_context(context, dir) ELSE context
          /\ built' = IF stage = "entered" THEN 0 ELSE 1
       \/ /\ stage = "entered"
          /\ mode = "oneshot" /\ pc \in { "args", "listed", "statted", "checked" }
          /\ UNCHANGED << context, built >>
    /\ pc' = IF mode = "caller" THEN "input" ELSE "crashed"
    /\ prompt' = <<>> /\ listing' = <<>>
    /\ reloaded' = FALSE
    /\ quiet' = TRUE
    /\ raceTurn' = IF raceTurn = turns THEN raceTurn ELSE 0
    /\ UNCHANGED << last_sig, dir, mode, sig, callInput, output, prevSig, checkedSig,
                    turns, asked, fsops >>

\* lines 154-157: what /reload does to the store and to _last_sig
ReloadedContext(ctx, d) == reload_file_context(ctx, d)
ReloadedSig(last, d) == last

\* the store when reload_file_context is cut short after its filter (lines 88-92)
\* and before the new entry is inserted (line 94)
Filtered(ctx) == DropFileContext(ctx)

\* how far reload_file_context had come when a KeyboardInterrupt landed: before the
\* filter has assigned the store (lines 82-92), or after it, at one of the stages of
\* the load of line 94
ReloadStages == { "called" } \cup Stages

\* KeyboardInterrupt inside the rebuild of /reload (lines 155, 88-94), or of the
\* caller's own reload_file_context(): before the filter has assigned the store,
\* which is left as it was, or after it, at one of the stages of the load; at the
\* last one the store is rebuilt and the REPL has not yet printed its notice (line
\* 156); for the caller nothing follows the insert, an interrupt after it is the
\* reload that returned (Reload)
ReloadInterrupt(raw, stage) ==
    /\ pc = "input"
    /\ \/ mode = "repl" /\ Strip(raw) = ReloadCmd
       \/ mode = "caller" /\ raw = ReloadCmd /\ stage # "inserted"
    /\ context' = IF stage = "called" THEN context
                   ELSE IF stage = "inserted" THEN reload_file_context(context, dir)
                   ELSE Filtered(context)
    /\ pc' = AfterRaise(mode, "KeyboardInterrupt")
    /\ built' = IF stage \in { "called", "entered" } THEN 0 ELSE 1
    /\ reloaded' = FALSE
    /\ UNCHANGED << last_sig, dir, mode, prompt, listing, sig, callInput, output,
                    prevSig, checkedSig, turns, asked, fsops, quiet, raceTurn >>

\* REPL: /reload (lines 154-157), or the caller's own reload_file_context()
Reload(raw) ==
    /\ pc = "input"
    /\ \/ mode = "repl" /\ Strip(raw) = ReloadCmd
       \/ mode = "caller" /\ raw = ReloadCmd
    /\ context' = ReloadedContext(context, dir)
    /\ last_sig' = ReloadedSig(last_sig, dir)
    /\ built' = 1
    /\ reloaded' = TRUE
    /\ UNCHANGED << dir, mode, pc, prompt, listing, sig, callInput, output,
                    prevSig, checkedSig, turns, asked, fsops, quiet, raceTurn >>

\* ---------------------------------------------------------------- agent.py:115-128  process
UserEntry(p) == [role |-> "user", content |-> p]
AssistantEntry(r) == [role |-> "assistant", content |-> r]

\* process is entered (from main's one-shot branch, from the REPL with the stripped
\* line, or by the caller, whose prompt starts with the tag marker) and
\* directory_signature lists the directory (line 101)
ProcessList(raw) ==
    /\ turns < MaxTurns
    /\ \/ mode = "oneshot" /\ pc = "args" /\ raw \in Prompts /\ prompt' = raw
       \/ /\ mode = "repl" /\ pc = "input" /\ raw \in RawLines
          /\ Strip(raw) \notin { <<>>, ExitCmd, QuitCmd, ReloadCmd }
          /\ prompt' = Strip(raw)
       \/ mode = "caller" /\ pc = "input" /\ raw = PromptTagged /\ prompt' = raw
    /\ listing' = Sorted(iterdir(dir))
    /\ pc' = "listed"
    /\ turns' = turns + 1
    /\ prevSig' = checkedSig
    /\ built' = 0
    /\ reloaded' = FALSE
    /\ quiet' = TRUE
    /\ UNCHANGED << context, last_sig, dir, mode, sig, callInput, output, checkedSig,
                    asked, fsops, raceTurn >>

\* directory_signature tests and stats the listed paths (lines 102-108)
ProcessStat ==
    /\ pc = "listed"
    /\ sig' = SigLoop(dir, listing)
    /\ listing' = <<>>
    /\ pc' = "statted"
    /\ reloaded' = FALSE
    /\ UNCHANGED << context, last_sig, dir, mode, prompt, callInput, output, built,
                    prevSig, checkedSig, turns, asked, fsops, quiet, raceTurn >>

\* mutant: the comparison looks at the file names alone
StaleByNames(last, s) ==
    last.isNone \/ [i \in 1..Len(s) |-> s[i][1]] # [i \in 1..Len(last.val) |-> last.val[i][1]]

\* mutant: None is taken for the snapshot of a directory with no eligible file
StaleUnlessEmpty(last, s) == IF last.isNone THEN s # <<>> ELSE SomeSig(s) # last
\* line 120: sig != _last_sig
Stale(last, s) == SomeSig(s) # last
\* lines 120-122: the store and _last_sig after the staleness check
CheckedContext(ctx, last, s, d) == IF Stale(last, s) THEN reload_file_context(ctx, d) ELSE ctx
\* mutant: the last-observed snapshot is never stored
CheckedSigForgotten(last, s) == last
CheckedSig(last, s) == IF Stale(last, s) THEN SomeSig(s) ELSE last

ProcessCheck ==
    /\ pc = "statted"
    /\ context' = CheckedContext(context, last_sig, sig, dir)
    /\ last_sig' = CheckedSig(last_sig, sig)
    /\ built' = IF Stale(last_sig, sig) THEN 1 ELSE 0
    /\ reloaded' = FALSE
    /\ checkedSig' = SomeSig(sig)
    /\ pc' = "checked"
    /\ UNCHANGED << dir, mode, prompt, listing, sig, callInput, output, prevSig,
                    turns, asked, fsops, quiet, raceTurn >>

\* mutant: a user entry left without an answer is replaced by the new one
PromptedMerging(ctx, p) ==
    IF ctx # <<>> /\ ctx[Len(ctx)].role = "user"
    THEN Append(SubSeq(ctx, 1, Len(ctx) - 1), UserEntry(p))
    ELSE Append(ctx, UserEntry(p))
\* line 124: the store after the user entry is appended
Prompted(ctx, p) == Append(ctx, UserEntry(p))
\* mutant: the request is made with the store as it was before the last append
call_before_append(ctx) == SubSeq(ctx, 1, Len(ctx) - 1)
\* lines 111-112: call() passes the store as the input of the request
call(ctx) == ctx

\* KeyboardInterrupt inside the rebuild of the staleness check (lines 121, 88-94),
\* after the filter, at one of the stages of the load; at the last one the store is
\* rebuilt and line 122 has not run: _last_sig is not assigned
CheckInterrupt(stage) ==
    /\ pc = "statted"
    /\ Stale(last_sig, sig)
    /\ context' = IF stage = "inserted"
                   THEN reload_file_context(context, dir) ELSE Filtered(context)
    /\ built' = IF stage = "entered" THEN built ELSE 1
    /\ pc' = AfterRaise(mode, "KeyboardInterrupt")
    /\ prompt' = <<>>
    /\ reloaded' = FALSE
    /\ quiet' = TRUE
    /\ raceTurn' = 0
    /\ UNCHANGED << last_sig, dir, mode, listing, sig, callInput, output, prevSig,
                    checkedSig, turns, asked, fsops >>

\* lines 124-125: the user entry is appended and the model is called with the store
ProcessAppend ==
    /\ pc = "checked"
    /\ context' = Prompted(context, prompt)
    /\ callInput' = call(context')
    /\ asked' = asked + 1
    /\ pc' = "awaiting"
    /\ reloaded' = FALSE
    /\ UNCHANGED << last_sig, dir, mode, prompt, listing, sig, output, built, prevSig,
                    checkedSig, turns, fsops, quiet, raceTurn >>

\* mutant: the assistant entry is appended twice
AnsweredTwice(ctx, r) == Append(Append(ctx, AssistantEntry(r)), AssistantEntry(r))
\* the store after line 127
Answered(ctx, r) == Append(ctx, AssistantEntry(r))

\* lines 125-128: the call returns; in one-shot mode main then returns
CallReturn(r) ==
    /\ pc = "awaiting"
    /\ context' = Answered(context, r)
    /\ output' = [isNone |-> FALSE, val |-> r]
    /\ pc' = IF mode = "oneshot" THEN "exited" ELSE "input"
    /\ prompt' = <<>> /\ callInput' = <<>>
    /\ reloaded' = FALSE
    /\ quiet' = TRUE
    /\ raceTurn' = IF raceTurn = turns THEN raceTurn ELSE 0
    /\ UNCHANGED << last_sig, dir, mode, listing, sig, built, prevSig, checkedSig,
                    turns, asked, fsops >>

\* KeyboardInterrupt after the assistant entry is appended (line 127): before
\* process has returned (line 128), so that the entry stays and nothing is returned,
\* or, when returned, while main prints the result (lines 138, 160)
ReturnInterrupt(r, returned) ==
    /\ pc = "awaiting"
    /\ context' = Answered(context, r)
    /\ output' = IF returned THEN [isNone |-> FALSE, val |-> r] ELSE output
    /\ pc' = AfterRaise(mode, "KeyboardInterrupt")
    /\ prompt' = <<>> /\ callInput' = <<>>
    /\ reloaded' = FALSE
    /\ quiet' = TRUE
    /\ raceTurn' = IF raceTurn = turns THEN raceTurn ELSE 0
    /\ UNCHANGED << last_sig, dir, mode, listing, sig, built, prevSig, checkedSig,
                    turns, asked, fsops >>

\* mutant: the pending user entry is rolled back when the call raises
FailedRolledBack(ctx) == SubSeq(ctx, 1, Len(ctx) - 1)
\* the store after a call that raised
Failed(ctx) == ctx

\* line 125: the call raises exc; the REPL loop catches EOFError and
\* KeyboardInterrupt and main returns, any other exception leaves main; a caller
\* may catch it
CallFail(exc) ==
    /\ pc = "awaiting"
    /\ context' = Failed(context)
    /\ pc' = AfterRaise(mode, exc)
    /\ prompt' = <<>> /\ callInput' = <<>>
    /\ reloaded' = FALSE
    /\ quiet' = TRUE
    /\ raceTurn' = IF raceTurn = turns THEN raceTurn ELSE 0
    /\ UNCHANGED << last_sig, dir, mode, listing, sig, output, built, prevSig,
                    checkedSig, turns, asked, fsops >>

\* ---------------------------------------------------------------- specification
Next ==
    \/ Main
    \/ \E raw \in RawLines : ReplEmpty(raw)
    \/ \E raw \in RawLines : ReplExit(raw)
    \/ \E caught \in BOOLEAN : ReplInterrupt(caught)
    \/ HandlerInterrupt
    \/ CallerInterrupt
    \/ \E stage \in Stages : MainInterrupt(stage)
    \/ \E raw \in RawLines, stage \in ReloadStages : ReloadInterrupt(raw, stage)
    \/ \E stage \in Stages : CheckInterrupt(stage)
    \/ \E raw \in RawLines : Reload(raw)
    \/ \E raw \in RawLines \cup Prompts : ProcessList(raw)
    \/ ProcessStat
    \/ ProcessCheck
    \/ ProcessAppend
    \/ \E r \in Replies : CallReturn(r)
    \/ \E r \in Replies, returned \in BOOLEAN : ReturnInterrupt(r, returned)
    \/ \E exc \in Exceptions : CallFail(exc)
    \/ \E nm \in Names, v \in FileVersions : FsWrite(nm, v)
    \/ \E nm \in Names : FsRemove(nm)
    \/ \E nm \in Names : FsChmod(nm)
    \/ \E nm \in Names : FsMkdir(nm)

Spec == Init /\ [][Next]_vars

\* ================================================================ claims
\* vocabulary of the claims, stated apart from the program's own definitions
TaggedEntry(m) ==
    m.role = "system" /\ Len(m.content) >= 1 /\ m.content[1] = Lit(FILE_CONTEXT_TAG)
TaggedAt(ctx) == { i \in 1..Len(ctx) : TaggedEntry(ctx[i]) }
IsTurnEntry(m) == m.role \in { "user", "assistant" }
History(ctx) == SelectSeq(ctx, IsTurnEntry)
IsUserEntry(m) == m.role = "user"
IsAssistantEntry(m) == m.role = "assistant"
Users(ctx) == SelectSeq(ctx, IsUserEntry)
Assistants(ctx) == SelectSeq(ctx, IsAssistantEntry)
IsPrefixOf(a, b) == Len(a) <= Len(b) /\ SubSeq(b, 1, Len(a)) = a
StartsWithTag(m) == Len(m.content) >= 1 /\ m.content[1] = Lit(FILE_CONTEXT_TAG)
\* the steps of the program, recognised by what they are
ReloadStep == \E raw \in RawLines : Reload(raw)
CheckStep == pc = "statted" /\ pc' = "checked"
AppendStep == pc = "checked" /\ pc' = "awaiting"
ReturnStep == \E r \in Replies : CallReturn(r)
\* a turn before the current one ran its staleness check to the end, and the current
\* turn computed the same snapshot as the last such turn
SameSnapshot == ~prevSig.isNone /\ prevSig = SomeSig(sig)
\* a turn before the current one ran its staleness check to the end, and the current
\* turn computed another snapshot than the last such turn
OtherSnapshot == ~prevSig.isNone /\ prevSig # SomeSig(sig)

\* C1 (as claimed): in every reachable state the store holds at most one tagged
\* file-context entry, and when it holds one it is the first entry.  A startup load
\* run on a store that holds a tagged entry inserts a second one (lines 75-79).
C1_TaggedFirst == TaggedAt(context) \subseteq {1}

\* C2: every step keeps the user/assistant entries of the store as a prefix of the
\* user/assistant entries after it: none is removed, changed or reordered.
C2_HistoryAppendOnly == [][IsPrefixOf(History(context), History(context'))]_vars

\* C2 witness: an explicit reload has just run on a store holding a user entry whose
\* text starts with the tag marker, and the entry is still there.
C2_Witness ==
    /\ reloaded
    /\ \E i \in 1..Len(context) : context[i].role = "user" /\ StartsWithTag(context[i])

\* C3: when a turn computes the same snapshot as the turn before it, its staleness
\* check runs no build and leaves the store and the last-observed snapshot as they
\* were (the turn before it being the last one whose check an interrupt did not cut
\* short).
C3_NoChangeNoRebuild ==
    [][(CheckStep /\ SameSnapshot) =>
        (built' = 0 /\ context' = context /\ last_sig' = last_sig)]_vars

\* C3 witness: the second turn of a caller, after a first turn whose call failed, has
\* passed its check with the snapshot of the first turn and without a build.
C3_Witness ==
    /\ pc = "checked" /\ SameSnapshot /\ built = 0
    /\ mode = "caller" /\ output.isNone
    /\ TaggedAt(context) = {1}

\* the (name, mtime, size) triples of the files of d the spec calls eligible
EligibleNames(d) ==
    { nm \in Names : d[nm].present /\ d[nm].isfile /\ nm # agent_filename
                     /\ Lower(Suffix(nm)) \in INCLUDE_EXTENSIONS }
Triples(d) == { <<nm, d[nm].mtime, TextLen(d[nm].bytes)>> : nm \in EligibleNames(d) }
Range(f) == { f[i] : i \in DOMAIN f }

\* C4: when a turn computes another snapshot than the turn before it, its staleness
\* check runs the build once, before the user entry is appended, and stores the new
\* snapshot; no other step of a turn builds, and a turn that computes the same
\* snapshot as the one before it does not build (the turn before it being the last
\* one whose check an interrupt did not cut short).
C4_ChangeOneRebuild ==
    [][/\ (CheckStep /\ OtherSnapshot) =>
            /\ built' = 1
            /\ last_sig' = SomeSig(sig)
            /\ History(context') = History(context)
            /\ Len(Users(context')) = asked
       /\ (CheckStep /\ SameSnapshot) => built' = 0
       /\ (pc \in { "listed", "checked", "awaiting" }) => built' = built
       /\ (pc' = "listed" /\ pc # "listed") => built' = 0]_vars

\* C4 witness: a file changed between two turns, the second turn's snapshot shows the
\* directory as it is, differs from the first turn's, and its check has built once.
C4_Witness ==
    /\ pc = "checked" /\ OtherSnapshot /\ built = 1
    /\ fsops >= 1
    /\ Range(sig) = Triples(dir)
    /\ last_sig = SomeSig(sig)
    /\ TaggedAt(context) = {1}

\* C5 (as claimed): an explicit reload always builds and leaves the last-observed
\* snapshot equal to the snapshot of the directory as it is.
C5_ReloadRefreshesSnapshot ==
    [][ReloadStep => (built' = 1 /\ last_sig' = SomeSig(directory_signature(dir')))]_vars

\* some eligible file of d can be read
Briefable(d) == \E nm \in EligibleNames(d) : d[nm].readable

\* C6 (amended): in the state an explicit reload leaves, the build has run, the store
\* holds one tagged entry, first, when some eligible file can be read and none
\* otherwise, and a second explicit reload made now, with no directory change in
\* between, leaves the store equal, entry for entry.
C6_ReloadIdempotent ==
    reloaded =>
        /\ built = 1
        /\ ReloadedContext(context, dir) = context
        /\ TaggedAt(context) = (IF Briefable(dir) THEN {1} ELSE {})

\* C6 witness: after a turn and a directory change, an explicit reload has run on a
\* store that a reload leaves as it is (the second of two reloads in a row), and the
\* tagged entry is first, before the turn's entries.
C6_Witness ==
    /\ reloaded /\ turns >= 1 /\ fsops >= 1
    /\ ENABLED (ReloadStep /\ reloaded /\ UNCHANGED context)
    /\ TaggedAt(context) = {1}
    /\ Len(context) >= 3

\* C6 (as claimed): as the amended statement, but with no tagged entry only when the
\* directory holds no eligible file.
C6_ReloadIdempotentAsClaimed ==
    reloaded =>
        /\ built = 1
        /\ ReloadedContext(context, dir) = context
        /\ TaggedAt(context) = (IF EligibleNames(dir) # {} THEN {1} ELSE {})

Last(q) == q[Len(q)]

\* C7: when the model call of a turn raises, the store is left as it was when the
\* call was issued: the turn's user entry is its last entry, no assistant entry is
\* added, and the call is not made again (the exception leaves process).
C7_FailureKeepsUserEntry ==
    [][(\E exc \in Exceptions : CallFail(exc)) =>
        /\ context' = callInput
        /\ Last(context') = [role |-> "user", content |-> prompt]
        /\ Len(Assistants(context')) = Len(Assistants(callInput))
        /\ Len(Users(context')) = asked
        /\ pc' \in { "input", "crashed", "exited" }
        /\ callInput' = <<>>]_vars

\* C7 witness: in the REPL, after a turn that succeeded, the call of the second turn
\* raised an exception the loop does not catch: main is left, the store ends with the
\* second turn's user entry.
C7_Witness ==
    /\ pc = "crashed" /\ turns = 2
    /\ Last(context).role = "user"
    /\ Len(Users(context)) = 2 /\ Len(Assistants(context)) = 1
    /\ TaggedAt(context) = {1}

\* C8: in a turn that computed the same snapshot as the turn before it, the check
\* leaves the store as it is, then the user entry with the prompt is appended at the
\* end, then the assistant entry with the returned text, which process returns.
C8_UnchangedTurnAddsTwo ==
    [][SameSnapshot =>
        /\ CheckStep => context' = context
        /\ AppendStep => context' = Append(context, [role |-> "user", content |-> prompt])
        /\ ReturnStep =>
             \E r \in Replies :
                /\ context' = Append(context, [role |-> "assistant", content |-> r])
                /\ output' = [isNone |-> FALSE, val |-> r]
                /\ Len(context') = Len(callInput) + 1]_vars

\* C8 witness: a second turn with the snapshot of the first has returned: the store
\* holds the tagged entry, then two user/assistant pairs.
C8_Witness ==
    /\ pc = "input" /\ turns = 2 /\ SameSnapshot /\ built = 0
    /\ ~output.isNone
    /\ Last(context) = [role |-> "assistant", content |-> output.val]
    /\ TaggedAt(context) = {1}
    /\ Len(context) = 5

C10_EmptyDirNoBriefing ==
    [][/\ (EligibleNames(dir) = {} /\ (ReloadStep \/ (CheckStep /\ built' = 1))) =>
            /\ TaggedAt(context') = {}
            /\ History(context') = History(context)
            /\ pc' \in { "input", "checked" }
       /\ (AppendStep /\ built = 1 /\ TaggedAt(context) = {}) =>
            /\ pc' = "awaiting"
            /\ \A i \in 1..Len(callInput') : IsTurnEntry(callInput'[i])]_vars

\* C10 witness: the first turn saw eligible files, the second turn saw none and
\* rebuilt: its call is in flight with user and assistant entries only.
C10_Witness ==
    /\ pc = "awaiting" /\ built = 1
    /\ ~prevSig.isNone /\ prevSig.val # <<>> /\ sig = <<>>
    /\ EligibleNames(dir) = {}
    /\ TaggedAt(callInput) = {}
    /\ \A i \in 1..Len(callInput) : IsTurnEntry(callInput[i])

\* the bytes of the files of d that are eligible and can be read, by name
ReadableFiles(d) ==
    [nm \in { n \in EligibleNames(d) : d[n].readable } |-> d[nm].bytes]
\* the briefing the store holds is the one built from d (none when d yields none)
BriefingOf(ctx, d) ==
    LET msg == build_file_context_message(d) IN
    IF msg.isNone THEN TaggedAt(ctx) = {}
    ELSE TaggedAt(ctx) = {1} /\ ctx[1] = msg.val

\* C11 (as claimed): two directory states with the same (name, mtime, size) triples
\* of eligible files give the same briefing.
C11_SameTriplesSameBriefing ==
    [][(dir' # dir /\ Triples(dir') = Triples(dir)) =>
         build_file_context_message(dir') = build_file_context_message(dir)]_vars

\* C11: two directory states whose readable eligible files have the same names and
\* the same bytes give the same briefing, whatever the modification times and
\* whatever the other entries of the directory are.
C11_SameFilesSameBriefing ==
    [][(dir' # dir /\ ReadableFiles(dir') = ReadableFiles(dir)) =>
         build_file_context_message(dir') = build_file_context_message(dir)]_vars

\* C11 witness: a.md was rewritten with the same bytes and a later mtime between two
\* turns; the second turn saw the new mtime, rebuilt, and the store holds the
\* briefing of the directory.
C11_Witness ==
    /\ pc = "checked" /\ built = 1 /\ quiet /\ fsops >= 1
    /\ prevSig = SomeSig(<< <<NameAmd, 1, 5>> >>)
    /\ sig = << <<NameAmd, 2, 5>> >>
    /\ dir[NameAmd] = RegularFile(BytesHello, 2)
    /\ BriefingOf(context, dir) /\ TaggedAt(context) = {1}

\* the store's briefing was built from the directory as it is now: the last step was
\* an explicit reload, or the turn in progress has rebuilt and the directory has not
\* changed during it
FreshlyBuilt == reloaded \/ (pc = "checked" /\ built = 1 /\ quiet)
\* the content shown for file nm in a briefing text: the pieces between the "---"
\* line that follows the file's name and the next line break
SectionOf(content, nm) ==
    LET i == CHOOSE k \in 1..Len(content) : content[k].name = nm
        j == CHOOSE k \in (i + 2)..Len(content) :
                 /\ content[k].lit = "\n"
                 /\ \A m \in (i + 2)..(k - 1) : content[m].lit # "\n"
    IN SubSeq(content, i + 2, j - 1)
\* p is an initial part of the text t (both in runs of distinct characters)
IsTextPrefix(p, t) ==
    /\ Len(p) <= Len(t)
    /\ \A i \in 1..Len(p) :
          /\ p[i].lit = t[i].lit
          /\ IF i < Len(p) THEN p[i].n = t[i].n ELSE p[i].n <= t[i].n
Min(a, b) == IF a <= b THEN a ELSE b

\* C12: in a briefing just built, the content shown for every eligible readable file
\* is the initial part of the file's decoded text of length
\* min(len(text), MAX_FILE_CHARS); a longer file does not make the build fail.
C12_Truncation ==
    FreshlyBuilt =>
        \A nm \in DOMAIN ReadableFiles(dir) :
            LET text == Decode(dir[nm].bytes) IN
            /\ TaggedAt(context) = {1}
            /\ \E k \in 1..Len(context[1].content) : context[1].content[k].name = nm
            /\ TextLen(SectionOf(context[1].content, nm))
                   = Min(TextLen(text), MAX_FILE_CHARS)
            /\ IsTextPrefix(SectionOf(context[1].content, nm), text)

\* C12 witness: B.MD holds MAX_FILE_CHARS + 1 characters and an explicit reload has
\* just built the briefing, which shows exactly MAX_FILE_CHARS of them.
C12_Witness ==
    /\ reloaded
    /\ dir[NameBMD] = RegularFile(BytesLong, 2)
    /\ TextLen(Decode(dir[NameBMD].bytes)) = MAX_FILE_CHARS + 1
    /\ TaggedAt(context) = {1}
    /\ SectionOf(context[1].content, NameBMD) = <<Rep("x", MAX_FILE_CHARS)>>

\* C13 (as claimed): whenever a turn whose directory did not change during the turn
\* calls the model, the request holds the briefing of the directory as it is, and no
\* tagged entry exactly when the directory yields no briefing.
C13_FreshAtCall == (pc = "awaiting" /\ quiet) => BriefingOf(callInput, dir)

\* C14 (amended): the staleness check of the first turn finds the last-observed
\* snapshot None and always builds, also when the snapshot is empty; from that check
\* until the next turn the last-observed snapshot is the one that turn computed; the
\* store then holds exactly one tagged entry, first, the briefing of the directory,
\* when some eligible file can be read, and no tagged entry otherwise; a briefing
\* that main loaded at startup from the same directory is replaced by an equal one,
\* not doubled.
C14_FirstTurnRebuilds ==
    [][/\ (CheckStep /\ turns = 1) =>
            /\ last_sig = NoneSig
            /\ built' = 1
            /\ last_sig' = SomeSig(sig)
            /\ BriefingOf(context', dir)
            /\ TaggedAt(context') = (IF Briefable(dir) THEN {1} ELSE {})
            /\ (fsops = 0 /\ TaggedAt(context) = {1}) => context' = context
       /\ (turns' = 1 /\ ~checkedSig'.isNone) => last_sig' = SomeSig(sig')]_vars

\* C14 (as claimed): as the amended statement, but with exactly one tagged entry in
\* the store after the check of the first turn, whatever the directory holds.
C14_FirstTurnRebuildsAsClaimed ==
    [][/\ (CheckStep /\ turns = 1) =>
            /\ last_sig = NoneSig
            /\ built' = 1
            /\ last_sig' = SomeSig(sig)
            /\ Cardinality(TaggedAt(context')) = 1
       /\ (turns' = 1 /\ ~checkedSig'.isNone) => last_sig' = SomeSig(sig')]_vars

\* C14 witness: main loaded a briefing, the directory did not change, and the first
\* turn's check has rebuilt: the store holds one tagged entry and nothing else.
C14_Witness ==
    /\ pc = "checked" /\ turns = 1 /\ built = 1 /\ fsops = 0
    /\ sig # <<>> /\ last_sig = SomeSig(sig)
    /\ TaggedAt(context) = {1} /\ Len(context) = 1

\* the store ends with a user entry that has no answer
Dangling(ctx) == ctx # <<>> /\ ctx[Len(ctx)].role = "user"
Roles(ctx) == [i \in 1..Len(ctx) |-> ctx[i].role]

\* C15: a turn that follows a failed call appends its user entry after the one left
\* by the failed turn, and when its call returns exactly one assistant entry follows:
\* the store ends with user, user, assistant; no user entry is ever removed or merged
\* (there is one per turn that got to append its own), and there are never more
\* assistant entries than user entries.
C15_NoDedupAfterFailure ==
    [][/\ (AppendStep /\ Dangling(context)) =>
            /\ context' = Append(context, UserEntry(prompt))
            /\ Len(Users(context')) = asked + 1
       /\ (ReturnStep /\ Len(context) >= 2 /\ context[Len(context) - 1].role = "user") =>
            /\ \E r \in Replies : context' = Append(context, AssistantEntry(r))
            /\ SubSeq(Roles(context'), Len(context') - 2, Len(context'))
                   = << "user", "user", "assistant" >>
            /\ Users(context') = Users(context)
            /\ Len(Users(context')) = asked
       /\ Len(Assistants(context')) <= Len(Users(context'))]_vars

\* C15 witness: the caller's first turn failed, its second turn, with the same prompt,
\* succeeded: the history is user(p), user(p), assistant(reply).
C15_Witness ==
    /\ mode = "caller" /\ pc = "input" /\ turns = 2
    /\ Roles(History(context)) = << "user", "user", "assistant" >>
    /\ History(context)[1].content = History(context)[2].content
    /\ ~output.isNone /\ History(context)[3].content = output.val

\* the file names shown in a briefing text, in the order they appear
IsNamePiece(piece) == piece.name # <<>>
NamesIn(content) ==
    LET pieces == SelectSeq(content, IsNamePiece) IN
    [i \in 1..Len(pieces) |-> pieces[i].name]
\* the file names of a snapshot, in its order
SigNames(s) == [i \in 1..Len(s) |-> s[i][1]]
\* the names the briefing of d shows (none when d yields no briefing)
BriefedNames(d) ==
    LET msg == build_file_context_message(d) IN
    IF msg.isNone THEN <<>> ELSE NamesIn(msg.val.content)
\* the step changes only directory entries that are not eligible before or after it
IneligibleChange ==
    /\ dir' # dir
    /\ \A nm \in Names :
          dir'[nm] # dir[nm] => nm \notin (EligibleNames(dir) \cup EligibleNames(dir'))

\* C16: a snapshot holds only regular files whose lower-cased extension is in the
\* allow-list and whose name is not the agent's, in name order; a directory change
\* that touches only entries failing this test leaves the directory's snapshot as it
\* was, and a turn that computes the same snapshot as the turn before does not
\* rebuild; the briefing of a directory shows the files of its snapshot that can be
\* read, in the same order.
C16_IneligibleFilesIgnored ==
    [][/\ IneligibleChange => directory_signature(dir') = directory_signature(dir)
       /\ (pc = "listed" /\ pc' = "statted") =>
            /\ \A i \in 1..Len(sig') : sig'[i][1] \in EligibleNames(dir)
            /\ \A i \in 1..Len(sig') : \A j \in 1..Len(sig') :
                  i < j => StrLess(sig'[i][1], sig'[j][1])
       /\ (CheckStep /\ SameSnapshot) => (built' = 0 /\ context' = context)
       /\ (pc = "start" \/ dir' # dir) =>
            LET isReadable(nm) == dir'[nm].readable IN
            BriefedNames(dir')
                = SelectSeq(SigNames(directory_signature(dir')), isReadable)]_vars

\* C16 witness: between two turns i.png was written, and nothing else changed: the
\* second turn computed the first turn's snapshot, which shows the eligible files of
\* the directory, and did not rebuild.
C16_Witness ==
    /\ pc = "checked" /\ turns = 2 /\ built = 0 /\ SameSnapshot
    /\ fsops = 1 /\ quiet /\ raceTurn = 0
    /\ dir[NameIpng] = RegularFile(BytesLong, 2)
    /\ sig # <<>> /\ Range(sig) = Triples(dir)
    /\ BriefingOf(context, dir)

\* the names of q are in strictly ascending order
Ascending(q) == \A i \in 1..Len(q) : \A j \in 1..Len(q) : i < j => StrLess(q[i], q[j])
\* the step is a startup load that ran to its end (what a load leaves unchanged is
\* tested first)
LoadStep ==
    /\ pc \in { "start", "input" } /\ pc' \in { "args", "input" }
    /\ pc = "start" \/ mode = "caller"
    /\ built' = 1 /\ ~reloaded' /\ dir' = dir /\ turns' = turns
    /\ context' = context \/ (context' # <<>> /\ Tail(context') = context)
    /\ Main
\* the step runs the Context Builder to its end and leaves in the store what it
\* built: a startup load into a store without a tagged entry, an explicit reload, or
\* a staleness check that found a change
BuildStep ==
    \/ LoadStep /\ TaggedAt(context) = {}
    \/ reloaded'
    \/ CheckStep /\ built' = 1
\* the names shown by the store's tagged entry
ShownNames(ctx) == IF TaggedAt(ctx) = {} THEN <<>> ELSE NamesIn(ctx[1].content)

\* C17: the snapshot loop skips a listed entry that is gone (or no longer eligible)
\* when it is tested, and records every other listed eligible file, in name order,
\* with its mtime and size; a build leaves out a file whose read fails and shows
\* every other eligible file, in name order; neither step raises: the turn goes on
\* to its check, the reload returns to the prompt (the loop is left otherwise only by
\* an interrupt, which records no snapshot).  A startup load repeated on a store that
\* holds a tagged entry does the same when it builds a briefing, and leaves the store
\* as it is when it builds none.
C17_PerFileFailuresSkipped ==
    [][/\ (pc = "listed" /\ pc' = "statted") =>
            /\ Range(SigNames(sig')) = Range(listing) \cap EligibleNames(dir)
            /\ Ascending(SigNames(sig'))
            /\ Range(sig') \subseteq Triples(dir)
       /\ pc = "listed" =>
            \/ pc' \in { "listed", "statted" }
            \/ pc' \in { "exited", "crashed", "input" } /\ sig' = sig /\ last_sig' = last_sig
       /\ BuildStep =>
            /\ Range(ShownNames(context')) = DOMAIN ReadableFiles(dir)
            /\ Ascending(ShownNames(context'))
            /\ History(context') = History(context)
            /\ pc' \in { "args", "input", "checked" }
       /\ (LoadStep /\ TaggedAt(context) # {}) =>
            /\ \/ context' = context /\ DOMAIN ReadableFiles(dir) = {}
               \/ /\ Len(context') = Len(context) + 1
                  /\ Range(ShownNames(context')) = DOMAIN ReadableFiles(dir)
                  /\ Ascending(ShownNames(context'))
            /\ History(context') = History(context)
            /\ pc' = "input"]_vars

\* C17 witness: B.MD was listed and removed before the loop tested it: the snapshot
\* holds a.md alone, i.png being ineligible, and the turn is at its check.
C17_Witness ==
    /\ pc = "statted" /\ ~quiet /\ fsops = 1
    /\ ~dir[NameBMD].present /\ dir[NameIpng].present
    /\ sig = << <<NameAmd, 1, 5>> >>

\* C18 (as claimed): when a change to an eligible file lands in a turn between the
\* snapshot and the staleness check, that turn stores the snapshot computed before
\* the change; with no further change, the next turn's check sees another snapshot,
\* rebuilds, and leaves in the store the briefing of the directory.
C18_LateChangeNotLost ==
    [][/\ (CheckStep /\ raceTurn = turns) => last_sig' = SomeSig(sig)
       /\ (CheckStep /\ raceTurn >= 1 /\ raceTurn = turns - 1 /\ quiet) =>
            /\ OtherSnapshot
            /\ built' = 1
            /\ BriefingOf(context', dir)]_vars

\* a line without its blanks
IsNonBlank(piece) == piece.lit # " "
NonBlank(t) == SelectSeq(t, IsNonBlank)
ControlLines == { <<>>, ExitCmd, QuitCmd, ReloadCmd }
InTurn(p) == p \in { "listed", "statted", "checked", "awaiting" }
IsNotTagged(m) == ~TaggedEntry(m)
Untagged(ctx) == SelectSeq(ctx, IsNotTagged)

====
